---- MODULE Spec2Model ----
(***************************************************************************)
(* Service layer of the e-learning backend: EnrollmentService,             *)
(* CourseService (status transitions, fee and discount, enrollment         *)
(* counter), PrivilegeService, the privilege checker of                    *)
(* middleware/privilege_checker.py, and the routes that create users and   *)
(* create, update and publish courses.                                     *)
(*                                                                         *)
(* The database tables are the state.  A row is a record; a table with an  *)
(* autoincrement key is a sequence (row id = index).  Enum members are      *)
(* written as Python prints them ("UserRole.ADMIN", "CourseStatus.DRAFT"); *)
(* their values are the lower-case strings of utils/enums.py.  UserRole     *)
(* and CourseStatus derive from plain Enum, so a member never equals its   *)
(* value: UserRole.ADMIN == "admin" is False in Python, and here            *)
(* "UserRole.ADMIN" = "admin" is FALSE.                                     *)
(*                                                                         *)
(* Every service method is one action (sequential calls, each run to        *)
(* completion).  The variable last records the call just made: its name,    *)
(* its arguments and what it returned or raised; tally counts, per course,  *)
(* the enroll and unenroll calls that succeeded so far.  Where requests run  *)
(* concurrently, a request is a sequence of steps (one per query or commit) *)
(* and calls holds the requests in flight: for each its position and the    *)
(* values its earlier queries returned.                                     *)
(***************************************************************************)
EXTENDS Integers, Sequences, FiniteSets, TLC

VARIABLES users, courses, enrollments, privileges, tally, last, calls

vars == <<users, courses, enrollments, privileges, tally, last, calls>>

\* the value of last: the call just made.  Methods return values of
\* different kinds (an id, a list, a dictionary, nothing); the name of the
\* method is the first field, so two calls of different methods differ by
\* name and their results are compared only between calls of one method.
Call(op, args, error, returned) ==
    [op |-> op, args |-> args, error |-> error, returned |-> returned]

(***************************************************************************)
(* Bounds of the model.                                                    *)
(***************************************************************************)
\* rows the enrollments table may hold before an enroll call is made
MaxEnrollments == 4
\* longest student-id list handed to bulk_enroll_students
MaxBulk == 2
\* rows the privileges table may hold before an assign call is made
MaxPrivileges == 2
\* longest privilege-name list handed to bulk_assign / bulk_revoke
MaxNames == 2

(***************************************************************************)
(* utils/enums.py                                                          *)
(***************************************************************************)
UserRole == {"UserRole.ADMIN", "UserRole.INSTRUCTOR", "UserRole.STUDENT"}

CourseStatus ==
    {"CourseStatus.DRAFT", "CourseStatus.PUBLISHED", "CourseStatus.ARCHIVED",
     "CourseStatus.SUSPENDED", "CourseStatus.IN_REVIEW", "CourseStatus.APPROVED",
     "CourseStatus.REJECTED"}

\* member.value
value(member) ==
    CASE member = "CourseStatus.DRAFT" -> "draft"
      [] member = "CourseStatus.PUBLISHED" -> "published"
      [] member = "CourseStatus.ARCHIVED" -> "archived"
      [] member = "CourseStatus.SUSPENDED" -> "suspended"
      [] member = "CourseStatus.IN_REVIEW" -> "in_review"
      [] member = "CourseStatus.APPROVED" -> "approved"
      [] member = "CourseStatus.REJECTED" -> "rejected"
      [] member = "UserRole.ADMIN" -> "admin"
      [] member = "UserRole.INSTRUCTOR" -> "instructor"
      [] member = "UserRole.STUDENT" -> "student"

\* CourseStatus.get_enrollable_statuses(): [cls.PUBLISHED.value, cls.APPROVED.value]
get_enrollable_statuses == {"published", "approved"}

(***************************************************************************)
(* Inputs the calls are made with.  Users 1..7 exist, 8 does not; courses  *)
(* "c1" and "c2" exist, "c9" does not.                                      *)
(***************************************************************************)
UserIds == 1..8
CourseIds == {"c1", "c2", "c9"}
BulkIds == {3, 4, 5}

\* the users table the enrollment and privilege services find; only register and
\* create_user write it
SeedUsers ==
    [u \in 1..7 |->
        CASE u = 1 -> [role |-> "UserRole.ADMIN", is_active |-> TRUE]
          [] u = 2 -> [role |-> "UserRole.INSTRUCTOR", is_active |-> TRUE]
          [] u = 3 -> [role |-> "UserRole.STUDENT", is_active |-> TRUE]
          [] u = 4 -> [role |-> "UserRole.STUDENT", is_active |-> TRUE]
          [] u = 5 -> [role |-> "UserRole.STUDENT", is_active |-> TRUE]
          [] u = 6 -> [role |-> "UserRole.STUDENT", is_active |-> FALSE]
          [] u = 7 -> [role |-> "UserRole.ADMIN", is_active |-> FALSE]]

Row(s, c, a) == [student_id |-> s, course_id |-> c, is_active |-> a]

\* enrollment tables the database may hold when the service starts: at most one
\* active row per (student, course), history rows kept
SeedEnrollments ==
    { <<>>,
      <<Row(3, "c1", TRUE)>>,
      <<Row(3, "c1", FALSE), Row(3, "c1", TRUE), Row(4, "c1", TRUE)>>,
      <<Row(4, "c1", TRUE), Row(3, "c2", TRUE), Row(5, "c1", FALSE)>> }

(***************************************************************************)
(* Queries of services/enrollment_service.py                               *)
(***************************************************************************)
Rows(enr) == 1..Len(enr)

\* the rows matched by filter(student_id ==, course_id ==, is_active == True)
ActiveRows(enr, s, c) ==
    {i \in Rows(enr) : enr[i].student_id = s /\ enr[i].course_id = c /\ enr[i].is_active}

is_student_enrolled(enr, s, c) == ActiveRows(enr, s, c) # {}

\* a count that forgets the is_active filter
get_enrollment_count_all(enr, c) ==
    Cardinality({i \in Rows(enr) : enr[i].course_id = c})

\* func.count(Enrollment.id) over course_id == c, is_active == True
get_enrollment_count(enr, c) ==
    Cardinality({i \in Rows(enr) : enr[i].course_id = c /\ enr[i].is_active})

\* writes total_enrolled of the course row, when the row exists (is_active is not
\* looked at)
_update_course_enrollment_count(crs, enr, c) ==
    IF c \in DOMAIN crs
    THEN [crs EXCEPT ![c].total_enrolled = get_enrollment_count(enr, c)]
    ELSE crs

\* the courses table that goes with a seeded enrollments table
SeedActive(enr, c) ==
    Cardinality({i \in 1..Len(enr) : enr[i] \in {Row(s, c, TRUE) : s \in UserIds}})

\* a nullable column holds None or one value
None == <<>>
Some(v) == <<v>>

SeedCourses(enr) ==
    [c \in {"c1", "c2"} |->
        [status |-> IF c = "c2" THEN "CourseStatus.PUBLISHED" ELSE "CourseStatus.DRAFT",
         is_active |-> c # "c2",
         instructor_id |-> 2,
         fee |-> 1000,
         discounted_fee |-> None,
         discount_start_date |-> None,
         discount_end_date |-> None,
         total_enrolled |-> SeedActive(enr, c)]]

(***************************************************************************)
(* EnrollmentService.enroll_student                                        *)
(***************************************************************************)
NoError == "none"

\* the student query without its is_active filter
student_query_any_activity(s) ==
    s \in DOMAIN users /\ users[s].role = "UserRole.STUDENT"

\* query(User).filter(id ==, role == UserRole.STUDENT, is_active == True).first()
student_query(s) ==
    s \in DOMAIN users /\ users[s].role = "UserRole.STUDENT" /\ users[s].is_active

\* query(Course).filter(id ==, is_active == True).first()
get_course_by_id(crs, c) == c \in DOMAIN crs /\ crs[c].is_active

\* the checks without any of the raises
enroll_checks_skipped(crs, enr, s, c) == NoError

\* the checks of enroll_student in the order of the code; the message of the
\* ValueError raised, or NoError.  course.status is a CourseStatus member and
\* enrollable_statuses a list of strings.
enroll_checks(crs, enr, s, c) ==
    IF ~student_query(s) THEN "Student not found or invalid"
    ELSE IF ~get_course_by_id(crs, c) THEN "Course not found"
    ELSE IF crs[c].status \notin get_enrollable_statuses
         THEN "Cannot enroll in course with status"
    ELSE IF is_student_enrolled(enr, s, c)
         THEN "Student is already enrolled in this course"
    ELSE NoError

\* the whole call: what it raised, the tables after it, the id of the new row
enroll_student(crs, enr, s, c) ==
    LET err == enroll_checks(crs, enr, s, c)
        added == Append(enr, Row(s, c, TRUE))
    IN IF err # NoError
       THEN [error |-> err, courses |-> crs, enrollments |-> enr, id |-> 0]
       ELSE [error |-> NoError,
             courses |-> _update_course_enrollment_count(crs, added, c),
             enrollments |-> added,
             id |-> Len(added)]

\* for ... in student_ids: try enroll_student except ValueError: continue
RECURSIVE bulk_enroll_students(_, _, _, _, _)
bulk_enroll_students(crs, enr, ids, c, acc) ==
    IF ids = <<>>
    THEN [courses |-> crs, enrollments |-> enr, returned |-> acc]
    ELSE LET r == enroll_student(crs, enr, Head(ids), c)
         IN bulk_enroll_students(r.courses, r.enrollments, Tail(ids), c,
                IF r.error = NoError THEN Append(acc, r.id) ELSE acc)

\* unenroll_student that leaves the counter as it was
unenroll_row_no_recount(crs, enr, i, c) ==
    [courses |-> crs, enrollments |-> [enr EXCEPT ![i].is_active = FALSE]]

\* unenroll_student on row i, the row .first() returned
unenroll_row(crs, enr, i, c) ==
    LET flipped == [enr EXCEPT ![i].is_active = FALSE]
    IN [courses |-> _update_course_enrollment_count(crs, flipped, c),
        enrollments |-> flipped]

(***************************************************************************)
(* The calls as actions                                                    *)
(***************************************************************************)
Tally(field, c, n) ==
    IF c \in DOMAIN tally THEN [tally EXCEPT ![c][field] = @ + n] ELSE tally

EnrollStudent(s, c) ==
    /\ Len(enrollments) < MaxEnrollments
    /\ LET r == enroll_student(courses, enrollments, s, c)
       IN /\ courses' = r.courses
          /\ enrollments' = r.enrollments
          /\ last' = Call("enroll_student", <<s, c>>, r.error, <<r.id>>)
          /\ tally' = Tally("enrolled", c, IF r.error = NoError THEN 1 ELSE 0)
    /\ UNCHANGED <<calls, users, privileges>>

UnenrollStudent(s, c) ==
    /\ IF ActiveRows(enrollments, s, c) = {}
       THEN /\ last' = Call("unenroll_student", <<s, c>>, "Enrollment not found", <<>>)
            /\ UNCHANGED <<courses, enrollments, tally>>
       ELSE \E i \in ActiveRows(enrollments, s, c) :
               LET r == unenroll_row(courses, enrollments, i, c)
               IN /\ courses' = r.courses
                  /\ enrollments' = r.enrollments
                  /\ last' = Call("unenroll_student", <<s, c>>, NoError, <<i>>)
                  /\ tally' = Tally("unenrolled", c, 1)
    /\ UNCHANGED <<calls, users, privileges>>

SeqsUpTo(S, n) == UNION {[1..k -> S] : k \in 0..n}

BulkEnrollStudents(ids, c) ==
    /\ Len(enrollments) + Len(ids) <= MaxEnrollments
    /\ LET r == bulk_enroll_students(courses, enrollments, ids, c, <<>>)
       IN /\ courses' = r.courses
          /\ enrollments' = r.enrollments
          /\ last' = Call("bulk_enroll_students", <<ids, c>>, NoError, r.returned)
          /\ tally' = Tally("enrolled", c, Len(r.returned))
    /\ UNCHANGED <<calls, users, privileges>>

\* CourseService.update_enrollment_count
UpdateEnrollmentCount(c) ==
    /\ courses' = _update_course_enrollment_count(courses, enrollments, c)
    /\ last' = Call("update_enrollment_count", <<c>>, NoError,
                    <<get_enrollment_count(enrollments, c)>>)
    /\ UNCHANGED <<calls, users, enrollments, privileges, tally>>

\* a transition that looks at the prior status and refuses an archived course
set_status_unless_archived(c, op, status) ==
    /\ IF get_course_by_id(courses, c) /\ courses[c].status # "CourseStatus.ARCHIVED"
       THEN /\ courses' = [courses EXCEPT ![c].status = status]
            /\ last' = Call(op, <<c>>, NoError, <<status>>)
       ELSE /\ last' = Call(op, <<c>>, "Course not found", <<>>)
            /\ UNCHANGED courses
    /\ UNCHANGED <<calls, users, enrollments, privileges, tally>>

\* publish_course .. reject_course: look the course up, overwrite its status
set_status(c, op, status) ==
    /\ IF get_course_by_id(courses, c)
       THEN /\ courses' = [courses EXCEPT ![c].status = status]
            /\ last' = Call(op, <<c>>, NoError, <<status>>)
       ELSE /\ last' = Call(op, <<c>>, "Course not found", <<>>)
            /\ UNCHANGED courses
    /\ UNCHANGED <<calls, users, enrollments, privileges, tally>>

PublishCourse(c) == set_status(c, "publish_course", "CourseStatus.PUBLISHED")
ArchiveCourse(c) == set_status(c, "archive_course", "CourseStatus.ARCHIVED")
SuspendCourse(c) == set_status(c, "suspend_course", "CourseStatus.SUSPENDED")
SubmitForReview(c) == set_status(c, "submit_for_review", "CourseStatus.IN_REVIEW")
ApproveCourse(c) == set_status(c, "approve_course", "CourseStatus.APPROVED")
RejectCourse(c) == set_status(c, "reject_course", "CourseStatus.REJECTED")

(***************************************************************************)
(* utils/enums.py: PrivilegeName                                           *)
(***************************************************************************)
PrivilegeName ==
    {"create_course", "edit_course", "delete_course", "publish_course",
     "archive_course", "suspend_course", "create_lesson", "edit_lesson",
     "delete_lesson", "manage_lessons", "create_assignment", "edit_assignment",
     "delete_assignment", "manage_assignments", "grade_assignments",
     "view_enrollments", "manage_students", "enroll_students", "unenroll_students",
     "upload_content", "delete_content", "manage_content", "view_analytics",
     "view_reports", "export_data", "send_announcements", "message_students",
     "manage_communications", "set_discounts", "view_revenue", "manage_pricing",
     "manage_course_settings", "access_advanced_features"}

get_default_instructor_privileges ==
    <<"create_course", "edit_course", "delete_course", "manage_lessons",
      "view_enrollments", "create_assignment", "grade_assignments",
      "upload_content", "send_announcements", "set_discounts">>

(***************************************************************************)
(* services/privilege_service.py                                           *)
(***************************************************************************)
\* inputs: "fly" is no member of PrivilegeName; user 3 is a student, user 7 an
\* inactive admin
NameInputs == {"create_course", "manage_pricing", "fly"}
InstructorInputs == {2, 3}
AdminInputs == {1, 7}

Privilege(i, name, admin) ==
    [instructor_id |-> i, privilege_name |-> name, is_active |-> TRUE,
     assigned_by |-> admin]

\* the messages of the ValueErrors (the interpolated privilege name left out)
InvalidName == "Invalid privilege name"
InstructorNotFound == "Instructor not found or invalid"
AdminNotFound == "Admin not found or invalid"
AlreadyAssigned == "Privilege already assigned to this instructor"
PrivilegeNotFound == "Privilege not found for this instructor"

\* "already assigned" in str(e), "not found" in str(e): of the names given as
\* input, none contains either phrase
mentions_already_assigned(err) == err = AlreadyAssigned
mentions_not_found(err) == err \in {InstructorNotFound, AdminNotFound, PrivilegeNotFound}

\* query(User).filter(id ==, role == UserRole.INSTRUCTOR / ADMIN, is_active == True)
instructor_query(usr, i) ==
    i \in DOMAIN usr /\ usr[i].role = "UserRole.INSTRUCTOR" /\ usr[i].is_active
admin_query(usr, a) ==
    a \in DOMAIN usr /\ usr[a].role = "UserRole.ADMIN" /\ usr[a].is_active

\* the rows matched by filter(instructor_id ==, privilege_name ==, is_active == True)
ActivePrivileges(priv, i, name) ==
    {k \in 1..Len(priv) : /\ priv[k].instructor_id = i
                          /\ priv[k].privilege_name = name
                          /\ priv[k].is_active}

\* the existence check without its is_active filter
existing_privilege_any_row(priv, i, name) ==
    \E k \in 1..Len(priv) : priv[k].instructor_id = i /\ priv[k].privilege_name = name

existing_privilege(priv, i, name) == ActivePrivileges(priv, i, name) # {}

\* the checks without the existence check
assign_checks_no_existing(usr, priv, i, name, admin) ==
    IF name \notin PrivilegeName THEN InvalidName
    ELSE IF ~instructor_query(usr, i) THEN InstructorNotFound
    ELSE IF ~admin_query(usr, admin) THEN AdminNotFound
    ELSE NoError

\* the checks of assign_privilege_to_instructor in the order of the code
assign_checks(usr, priv, i, name, admin) ==
    IF name \notin PrivilegeName THEN InvalidName
    ELSE IF ~instructor_query(usr, i) THEN InstructorNotFound
    ELSE IF ~admin_query(usr, admin) THEN AdminNotFound
    ELSE IF existing_privilege(priv, i, name) THEN AlreadyAssigned
    ELSE NoError

assign_privilege_to_instructor(usr, priv, i, name, admin) ==
    LET err == assign_checks(usr, priv, i, name, admin)
    IN IF err # NoError
       THEN [error |-> err, privileges |-> priv, id |-> 0]
       ELSE [error |-> NoError,
             privileges |-> Append(priv, Privilege(i, name, admin)),
             id |-> Len(priv) + 1]

\* the loop of assign_default_privileges_to_instructor and of
\* bulk_assign_privileges: an "already assigned" error is skipped, any other
\* error is raised again and ends the call (the rows committed so far stay)
RECURSIVE assign_each(_, _, _, _, _, _)
assign_each(usr, priv, i, names, admin, acc) ==
    IF names = <<>>
    THEN [error |-> NoError, privileges |-> priv, returned |-> acc]
    ELSE LET r == assign_privilege_to_instructor(usr, priv, i, Head(names), admin)
         IN IF r.error = NoError
            THEN assign_each(usr, r.privileges, i, Tail(names), admin, Append(acc, r.id))
            ELSE IF mentions_already_assigned(r.error)
            THEN assign_each(usr, priv, i, Tail(names), admin, acc)
            ELSE [error |-> r.error, privileges |-> priv, returned |-> <<>>]

assign_default_privileges_to_instructor(usr, priv, i, admin) ==
    assign_each(usr, priv, i, get_default_instructor_privileges, admin, <<>>)

bulk_assign_privileges(usr, priv, i, names, admin) ==
    assign_each(usr, priv, i, names, admin, <<>>)

\* the checks of revoke_privilege_from_instructor
revoke_checks(usr, priv, i, name, admin) ==
    IF name \notin PrivilegeName THEN InvalidName
    ELSE IF ~admin_query(usr, admin) THEN AdminNotFound
    ELSE IF ActivePrivileges(priv, i, name) = {} THEN PrivilegeNotFound
    ELSE NoError

\* the tables revoke_privilege_from_instructor may leave: .first() has no
\* order_by, so any matching row may be the one deactivated
revoke_privilege_from_instructor(usr, priv, i, name, admin) ==
    LET err == revoke_checks(usr, priv, i, name, admin)
    IN IF err # NoError
       THEN {[error |-> err, privileges |-> priv]}
       ELSE {[error |-> NoError, privileges |-> [priv EXCEPT ![k].is_active = FALSE]] :
                k \in ActivePrivileges(priv, i, name)}

\* the loop of bulk_revoke_privileges: an error whose message holds "not found"
\* is skipped, any other is raised again
RECURSIVE bulk_revoke_privileges(_, _, _, _, _, _)
bulk_revoke_privileges(usr, priv, i, names, admin, acc) ==
    IF names = <<>>
    THEN {[error |-> NoError, privileges |-> priv, returned |-> acc]}
    ELSE UNION {
           IF r.error = NoError
           THEN bulk_revoke_privileges(usr, r.privileges, i, Tail(names), admin,
                                       Append(acc, Head(names)))
           ELSE IF mentions_not_found(r.error)
           THEN bulk_revoke_privileges(usr, priv, i, Tail(names), admin, acc)
           ELSE {[error |-> r.error, privileges |-> priv, returned |-> <<>>]} :
           r \in revoke_privilege_from_instructor(usr, priv, i, Head(names), admin)}

\* check_instructor_privilege: False for a name outside PrivilegeName
check_instructor_privilege(priv, i, name) ==
    IF name \notin PrivilegeName THEN FALSE ELSE ActivePrivileges(priv, i, name) # {}

(***************************************************************************)
(* middleware/privilege_checker.py.  current_user.role is a UserRole       *)
(* member (routers/auth/auth.py:86,112); it is compared with the strings   *)
(* "admin" and "instructor".                                               *)
(***************************************************************************)
\* the check with the role compared with the UserRole members
check_privilege_by_member(priv, name, u) ==
    IF users[u].role = "UserRole.ADMIN" THEN TRUE
    ELSE IF users[u].role = "UserRole.INSTRUCTOR"
    THEN check_instructor_privilege(priv, u, name)
    ELSE FALSE

check_privilege(priv, name, u) ==
    IF users[u].role = "admin" THEN TRUE
    ELSE IF users[u].role = "instructor" THEN check_instructor_privilege(priv, u, name)
    ELSE FALSE

\* the wrapper of require_privilege: NoError when the wrapped function is called
require_privilege(priv, name, u) ==
    IF users[u].role = "admin" THEN NoError
    ELSE IF users[u].role = "instructor"
         THEN IF check_instructor_privilege(priv, u, name)
              THEN NoError
              ELSE "403 Instructor does not have the required privilege"
    ELSE "403 Students cannot access this resource"

(***************************************************************************)
(* The privilege calls as actions                                          *)
(***************************************************************************)
AssignPrivilege(i, name, admin) ==
    /\ Len(privileges) < MaxPrivileges
    /\ LET r == assign_privilege_to_instructor(users, privileges, i, name, admin)
       IN /\ privileges' = r.privileges
          /\ last' = Call("assign_privilege_to_instructor", <<i, name, admin>>,
                          r.error, <<r.id>>)
    /\ UNCHANGED <<calls, users, courses, enrollments, tally>>

AssignDefaultPrivileges(i, admin) ==
    /\ Len(privileges) < MaxPrivileges
    /\ LET r == assign_default_privileges_to_instructor(users, privileges, i, admin)
       IN /\ privileges' = r.privileges
          /\ last' = Call("assign_default_privileges_to_instructor", <<i, admin>>,
                          r.error, r.returned)
    /\ UNCHANGED <<calls, users, courses, enrollments, tally>>

BulkAssignPrivileges(i, names, admin) ==
    /\ Len(privileges) < MaxPrivileges
    /\ LET r == bulk_assign_privileges(users, privileges, i, names, admin)
       IN /\ privileges' = r.privileges
          /\ last' = Call("bulk_assign_privileges", <<i, names, admin>>,
                          r.error, r.returned)
    /\ UNCHANGED <<calls, users, courses, enrollments, tally>>

RevokePrivilege(i, name, admin) ==
    /\ \E r \in revoke_privilege_from_instructor(users, privileges, i, name, admin) :
          /\ privileges' = r.privileges
          /\ last' = Call("revoke_privilege_from_instructor", <<i, name, admin>>,
                          r.error, <<>>)
    /\ UNCHANGED <<calls, users, courses, enrollments, tally>>

BulkRevokePrivileges(i, names, admin) ==
    /\ \E r \in bulk_revoke_privileges(users, privileges, i, names, admin, <<>>) :
          /\ privileges' = r.privileges
          /\ last' = Call("bulk_revoke_privileges", <<i, names, admin>>,
                          r.error, r.returned)
    /\ UNCHANGED <<calls, users, courses, enrollments, tally>>

CheckPrivilege(name, u) ==
    /\ last' = Call("check_privilege", <<name, u>>, NoError,
                    <<check_privilege(privileges, name, u)>>)
    /\ UNCHANGED <<calls, users, courses, enrollments, privileges, tally>>

RequirePrivilege(name, u) ==
    /\ last' = Call("require_privilege", <<name, u>>,
                    require_privilege(privileges, name, u), <<>>)
    /\ UNCHANGED <<calls, users, courses, enrollments, privileges, tally>>

Init ==
    /\ users = SeedUsers
    /\ enrollments \in SeedEnrollments
    /\ courses = SeedCourses(enrollments)
    /\ privileges = <<>>
    /\ tally = [c \in DOMAIN courses |->
                   [seeded |-> SeedActive(enrollments, c), enrolled |-> 0, unenrolled |-> 0]]
    /\ last = Call("init", <<>>, NoError, <<>>)
    /\ calls = <<>>

NextEnrollment ==
    \/ \E s \in UserIds, c \in CourseIds : EnrollStudent(s, c)
    \/ \E s \in UserIds, c \in CourseIds : UnenrollStudent(s, c)
    \/ \E ids \in SeqsUpTo(BulkIds, MaxBulk), c \in CourseIds : BulkEnrollStudents(ids, c)
    \/ \E c \in CourseIds : UpdateEnrollmentCount(c)
    \/ \E c \in CourseIds : PublishCourse(c)
    \/ \E c \in CourseIds : ArchiveCourse(c)
    \/ \E c \in CourseIds : SuspendCourse(c)
    \/ \E c \in CourseIds : SubmitForReview(c)
    \/ \E c \in CourseIds : ApproveCourse(c)
    \/ \E c \in CourseIds : RejectCourse(c)

SpecEnrollment == Init /\ [][NextEnrollment]_vars

NextPrivilege ==
    \/ \E i \in InstructorInputs, n \in NameInputs, a \in AdminInputs :
          AssignPrivilege(i, n, a)
    \/ \E i \in InstructorInputs, a \in AdminInputs : AssignDefaultPrivileges(i, a)
    \/ \E ns \in SeqsUpTo(NameInputs, MaxNames), a \in AdminInputs :
          BulkAssignPrivileges(2, ns, a)
    \/ \E i \in InstructorInputs, n \in NameInputs, a \in AdminInputs :
          RevokePrivilege(i, n, a)
    \/ \E ns \in SeqsUpTo(NameInputs, MaxNames), a \in AdminInputs :
          BulkRevokePrivileges(2, ns, a)
    \/ \E n \in {"create_course", "fly"}, u \in {1, 2, 3} : CheckPrivilege(n, u)
    \/ \E n \in {"create_course", "fly"}, u \in {1, 2, 3} : RequirePrivilege(n, u)

\* the privilege calls read and write no enrollment: one enrollments table is enough
InitPrivilege == Init /\ enrollments = <<>>

SpecPrivilege == InitPrivilege /\ [][NextPrivilege]_vars

(***************************************************************************)
(* Properties of EnrollmentService                                         *)
(***************************************************************************)
EnrollableByValue(c) ==
    /\ c \in DOMAIN courses
    /\ courses[c].is_active
    /\ value(courses[c].status) \in {"published", "approved"}

ValidStudent(s) ==
    /\ s \in DOMAIN users
    /\ users[s].role = "UserRole.STUDENT"
    /\ users[s].is_active

ActivePairRows(enr, s, c) ==
    {i \in 1..Len(enr) : enr[i] = Row(s, c, TRUE)}

ActiveOfCourse(enr, c) ==
    {i \in 1..Len(enr) : enr[i].course_id = c /\ enr[i].is_active}

Range(seq) == {seq[i] : i \in 1..Len(seq)}

\* C1: an enroll call for a valid student on an active course whose status is
\* published or approved raises "already enrolled" and adds no row when the pair
\* has an active enrollment, and succeeds when it has none; in particular it
\* succeeds right after a successful unenroll of the same pair.
C1_EnrollTwiceThenReenroll ==
    [][last'.op = "enroll_student" =>
        LET s == last'.args[1]
            c == last'.args[2]
        IN (ValidStudent(s) /\ EnrollableByValue(c)) =>
              IF ActivePairRows(enrollments, s, c) # {}
              THEN /\ last'.error = "Student is already enrolled in this course"
                   /\ enrollments' = enrollments
              ELSE /\ last'.error = NoError
                   /\ ActivePairRows(enrollments', s, c) # {}]_vars

C4_EnrollableStatusesOnly ==
    (/\ last.op = "enroll_student"
     /\ ValidStudent(last.args[1])
     /\ last.args[2] \in DOMAIN courses
     /\ courses[last.args[2]].is_active)
    => /\ (last.error = "Cannot enroll in course with status")
            <=> ~EnrollableByValue(last.args[2])
       /\ EnrollableByValue(last.args[2])
            => last.error \in {NoError, "Student is already enrolled in this course"}

\* C5: an enroll call whose student id is absent, not a student or inactive, or
\* whose course is absent or inactive, raises a not-found error, adds no row and
\* leaves every course (total_enrolled included) as it was.
C5_EnrollNotFound ==
    [][last'.op = "enroll_student" =>
        LET s == last'.args[1]
            c == last'.args[2]
        IN (~ValidStudent(s) \/ c \notin DOMAIN courses \/ ~courses[c].is_active) =>
              /\ last'.error = (IF ~ValidStudent(s) THEN "Student not found or invalid"
                                ELSE "Course not found")
              /\ enrollments' = enrollments
              /\ courses' = courses]_vars

\* enroll was refused for the inactive student on the active course
C5_Witness ==
    /\ last.op = "enroll_student"
    /\ last.error = "Student not found or invalid"
    /\ last.args[1] \in DOMAIN users
    /\ ~users[last.args[1]].is_active
    /\ users[last.args[1]].role = "UserRole.STUDENT"
    /\ last.args[2] \in DOMAIN courses
    /\ courses[last.args[2]].is_active

\* C6: unenroll raises not-found and changes nothing when the pair has no active
\* enrollment; otherwise it sets is_active of that enrollment to false, changes no
\* other row, and sets the course's total_enrolled to the number of its active
\* enrollments.
C6_Unenroll ==
    [][last'.op = "unenroll_student" =>
        LET s == last'.args[1]
            c == last'.args[2]
            act == ActivePairRows(enrollments, s, c)
        IN IF act = {}
           THEN /\ last'.error = "Enrollment not found"
                /\ enrollments' = enrollments
                /\ courses' = courses
           ELSE /\ last'.error = NoError
                /\ \E i \in act : enrollments' = [enrollments EXCEPT ![i].is_active = FALSE]
                /\ DOMAIN courses' = DOMAIN courses
                /\ \A d \in DOMAIN courses :
                      IF d = c
                      THEN courses'[d] = [courses[d] EXCEPT !.total_enrolled =
                                Cardinality(ActiveOfCourse(enrollments', c))]
                      ELSE courses'[d] = courses[d]]_vars

\* a successful unenroll left the pair without an active enrollment and with a
\* history row
C6_Witness ==
    /\ last.op = "unenroll_student"
    /\ last.error = NoError
    /\ ActivePairRows(enrollments, last.args[1], last.args[2]) = {}
    /\ \E i \in 1..Len(enrollments) :
          enrollments[i] = Row(last.args[1], last.args[2], FALSE)

\* C7: bulk enroll on an active course whose status is published or approved
\* returns one enrollment for each listed student that is valid and not yet
\* enrolled, skips the others, and raises total_enrolled by the number returned.
C7_BulkEnroll ==
    [][last'.op = "bulk_enroll_students" =>
        LET ids == last'.args[1]
            c == last'.args[2]
            fresh == {s \in Range(ids) :
                        ValidStudent(s) /\ ActivePairRows(enrollments, s, c) = {}}
        IN EnrollableByValue(c) =>
              /\ last'.error = NoError
              /\ Len(last'.returned) = Cardinality(fresh)
              /\ courses'[c].total_enrolled =
                     courses[c].total_enrolled + Len(last'.returned)]_vars

(***************************************************************************)
(* Properties of PrivilegeService and of the privilege checker             *)
(***************************************************************************)
ActivePrivilegeRows(priv, i, name) ==
    {k \in 1..Len(priv) : priv[k] \in {Privilege(i, name, a) : a \in AdminInputs}}

ValidInstructor(i) ==
    /\ i \in DOMAIN users
    /\ users[i].role = "UserRole.INSTRUCTOR"
    /\ users[i].is_active

ValidAdmin(a) ==
    /\ a \in DOMAIN users
    /\ users[a].role = "UserRole.ADMIN"
    /\ users[a].is_active

\* C8: an assign call with a privilege name of the enumeration, an active
\* instructor and an active admin raises "already assigned" and adds no row when
\* the instructor holds an active row of that name, and otherwise (also after a
\* revocation) appends one active row for the pair.
C8_AssignTwiceThenReassign ==
    [][last'.op = "assign_privilege_to_instructor" =>
        LET i == last'.args[1]
            name == last'.args[2]
            admin == last'.args[3]
        IN (name \in PrivilegeName /\ ValidInstructor(i) /\ ValidAdmin(admin)) =>
              IF ActivePrivilegeRows(privileges, i, name) # {}
              THEN /\ last'.error = AlreadyAssigned
                   /\ privileges' = privileges
              ELSE /\ last'.error = NoError
                   /\ privileges' = Append(privileges, Privilege(i, name, admin))]_vars

\* a privilege was assigned again after its earlier row had been revoked
C8_Witness ==
    /\ last.op = "assign_privilege_to_instructor"
    /\ last.error = NoError
    /\ \E k \in 1..Len(privileges) :
          /\ privileges[k].instructor_id = last.args[1]
          /\ privileges[k].privilege_name = last.args[2]
          /\ ~privileges[k].is_active
    /\ ActivePrivilegeRows(privileges, last.args[1], last.args[2]) # {}

\* C9: at most one active privilege row per (instructor_id, privilege_name).
C9_OneActivePrivilegePerPair ==
    \A i \in InstructorInputs, name \in PrivilegeName :
        Cardinality(ActivePrivilegeRows(privileges, i, name)) <= 1

\* the default assignment skipped a privilege the instructor already held and
\* added the other nine
C9_Witness ==
    /\ last.op = "assign_default_privileges_to_instructor"
    /\ last.error = NoError
    /\ Len(last.returned) = Len(get_default_instructor_privileges) - 1
    /\ \A k \in 1..Len(get_default_instructor_privileges) :
          ActivePrivilegeRows(privileges, last.args[1],
                              get_default_instructor_privileges[k]) # {}

\* C10: the privilege check is false for a student and true for an admin, for
\* every privilege name and whatever rows exist; the require_privilege wrapper
\* refuses a student and lets an admin through.
C10_StudentNeverAdminAlways ==
    /\ last.op = "check_privilege" =>
          /\ users[last.args[2]].role = "UserRole.STUDENT" => last.returned = <<FALSE>>
          /\ users[last.args[2]].role = "UserRole.ADMIN" => last.returned = <<TRUE>>
    /\ last.op = "require_privilege" =>
          /\ users[last.args[2]].role = "UserRole.STUDENT" => last.error # NoError
          /\ users[last.args[2]].role = "UserRole.ADMIN" => last.error = NoError

\* C11: for a user whose role is instructor the privilege check returns true
\* exactly when the name is a member of PrivilegeName and the instructor holds an
\* active privilege row of that name (so false after a revocation and for a name
\* outside the enumeration).
C11_InstructorCheckIffActiveRow ==
    (/\ last.op = "check_privilege"
     /\ users[last.args[2]].role = "UserRole.INSTRUCTOR")
    => last.returned =
          << /\ last.args[1] \in PrivilegeName
             /\ ActivePrivilegeRows(privileges, last.args[2], last.args[1]) # {} >>

(***************************************************************************)
(* routers/auth/auth.py: register, routers/auth/admin.py: create_user.     *)
(* A username or an email is a sequence of characters.  The calls are made *)
(* with a password that passes validate_password_strength.                 *)
(***************************************************************************)
\* users the table may hold before a user is created
MaxUsers == 3

RoleInputs == {"admin", "Instructor", "student", "teacher"}

\* str.lower() on the role strings given as input
lower(s) == IF s = "Instructor" THEN "instructor" ELSE s

\* UserRole(v): the member whose value is v, or a ValueError
UserRoleOf(v) ==
    IF \E m \in UserRole : value(m) = v
    THEN CHOOSE m \in UserRole : value(m) = v
    ELSE "ValueError"

UsernameInputs ==
    {<<"a", "n", "n">>, <<"b", "o", "b">>, <<"c", "a", "l">>, <<"_", "a", "l">>}
EmailInputs ==
    {<<"o", "'", "b", "@", "x", ".", "i", "o">>, <<"o", "b", "@", "x", ".", "i", "o">>,
     <<"a", "@", "x", ".", "i", "o">>}

\* [a-zA-Z0-9_]
WordCharacters ==
    {"a", "b", "c", "d", "e", "f", "g", "h", "i", "j", "k", "l", "m", "n", "o", "p",
     "q", "r", "s", "t", "u", "v", "w", "x", "y", "z", "A", "B", "C", "D", "E", "F",
     "G", "H", "I", "J", "K", "L", "M", "N", "O", "P", "Q", "R", "S", "T", "U", "V",
     "W", "X", "Y", "Z", "0", "1", "2", "3", "4", "5", "6", "7", "8", "9", "_"}

\* utils/error_utils.py: validate_username
validate_username(username) ==
    /\ Len(username) >= 3
    /\ Len(username) <= 50
    /\ \A k \in 1..Len(username) : username[k] \in WordCharacters
    /\ username[1] # "_"
    /\ username[Len(username)] # "_"

\* validate_email_format: what email_validator accepts of the inputs here, one
\* "@" after a local part of atext characters and dots, then a domain of word
\* characters with a dot inside
validate_email_format(email) ==
    \E at \in 2..Len(email) - 1 :
        /\ email[at] = "@"
        /\ \A k \in 1..at - 1 :
              email[k] \in (WordCharacters \ {"_"}) \cup {"'", ".", "_", "-", "+"}
        /\ \A k \in at + 1..Len(email) :
              email[k] \in (WordCharacters \ {"_"}) \cup {".", "-"}
        /\ \E k \in at + 2..Len(email) - 1 : email[k] = "."

\* str.strip()
RECURSIVE strip(_)
strip(text) ==
    IF text = <<>> THEN <<>>
    ELSE IF Head(text) = " " THEN strip(Tail(text))
    ELSE IF text[Len(text)] = " " THEN strip(SubSeq(text, 1, Len(text) - 1))
    ELSE text

\* sanitize_input: the characters < > " ' removed, cut at max_length, stripped
sanitize_input(text, max_length) ==
    LET sanitized == SelectSeq(text, LAMBDA ch : ch \notin {"<", ">", "\"", "'"})
    IN strip(IF Len(sanitized) > max_length
             THEN SubSeq(sanitized, 1, max_length)
             ELSE sanitized)

\* query(User).filter((User.username == username) | (User.email == email))
existing_users(usr, username, email) ==
    {u \in DOMAIN usr : usr[u].username = username \/ usr[u].email = email}

\* db.add(new_user); db.commit(): the autoincrement id, is_active by its default
new_user_id(usr) == Cardinality(DOMAIN usr) + 1

add_user(usr, username, email, role) ==
    [u \in DOMAIN usr \cup {new_user_id(usr)} |->
        IF u \in DOMAIN usr THEN usr[u]
        ELSE [username |-> username, email |-> email, role |-> role, is_active |-> TRUE]]

\* query(User).filter(User.role == UserRole.ADMIN): no is_active filter, and
\* .first() without order_by may return any of them
admins_of(usr) == {u \in DOMAIN usr : usr[u].role = "UserRole.ADMIN"}

\* register: validation, role, sanitizing, the duplicate query, then the user
\* row is committed before the privileges are assigned; an error of the
\* assignment becomes DatabaseException and the row stays
Register(username, email, role_in) ==
    LET role == UserRoleOf(lower(role_in))
        new == new_user_id(users)
        sanitized_username == sanitize_input(username, 50)
        sanitized_email == sanitize_input(email, 100)
        existing == existing_users(users, sanitized_username, sanitized_email)
        added == add_user(users, sanitized_username, sanitized_email, role)
        args == <<username, email, role_in>>
    IN /\ Cardinality(DOMAIN users) < MaxUsers
       /\ UNCHANGED <<calls, courses, enrollments, tally>>
       /\ IF ~validate_username(username) \/ ~validate_email_format(email)
          THEN /\ last' = Call("register", args, "ValidationException", <<>>)
               /\ UNCHANGED <<users, privileges>>
          ELSE IF role = "ValueError"
          THEN /\ last' = Call("register", args, "InvalidUserTypeException", <<>>)
               /\ UNCHANGED <<users, privileges>>
          ELSE IF existing # {}
          THEN /\ \E e \in existing :
                     last' = Call("register", args,
                                  IF users[e].username = sanitized_username
                                  THEN "User already exists with username"
                                  ELSE "User already exists with email", <<>>)
               /\ UNCHANGED <<users, privileges>>
          ELSE /\ users' = added
               /\ IF role = "UserRole.INSTRUCTOR" /\ admins_of(users) # {}
                  THEN \E admin_user \in admins_of(users) :
                          LET r == assign_default_privileges_to_instructor(
                                       added, privileges, new, admin_user)
                          IN /\ privileges' = r.privileges
                             /\ last' = Call("register", args,
                                   IF r.error = NoError THEN NoError
                                   ELSE "DatabaseException: User registration failed",
                                   <<new>>)
                  ELSE /\ UNCHANGED privileges
                       /\ last' = Call("register", args, NoError, <<new>>)

\* create_user: get_current_admin lets a user through whose role is
\* UserRole.ADMIN (is_active is not looked at); the duplicate query is made with
\* the strings as given; a ValueError of the assignment is not caught
CreateUser(current_user, username, email, role_in) ==
    LET role == UserRoleOf(lower(role_in))
        new == new_user_id(users)
        added == add_user(users, username, email, role)
        args == <<current_user, username, email, role_in>>
    IN /\ Cardinality(DOMAIN users) < MaxUsers
       /\ UNCHANGED <<calls, courses, enrollments, tally>>
       /\ IF users[current_user].role # "UserRole.ADMIN"
          THEN /\ last' = Call("create_user", args, "AuthenticationException", <<>>)
               /\ UNCHANGED <<users, privileges>>
          ELSE IF existing_users(users, username, email) # {}
          THEN /\ last' = Call("create_user", args,
                               "400 Username or email already registered", <<>>)
               /\ UNCHANGED <<users, privileges>>
          ELSE IF role = "ValueError"
          THEN /\ last' = Call("create_user", args, "400 Invalid user role", <<>>)
               /\ UNCHANGED <<users, privileges>>
          ELSE /\ users' = added
               /\ IF role = "UserRole.INSTRUCTOR"
                  THEN LET r == assign_default_privileges_to_instructor(
                                    added, privileges, new, current_user)
                       IN /\ privileges' = r.privileges
                          /\ last' = Call("create_user", args, r.error, <<new>>)
                  ELSE /\ UNCHANGED privileges
                       /\ last' = Call("create_user", args, NoError, <<new>>)

\* a fresh installation: no user, no course
InitRegistration ==
    /\ users = <<>>
    /\ courses = <<>>
    /\ enrollments = <<>>
    /\ privileges = <<>>
    /\ tally = <<>>
    /\ last = Call("init", <<>>, NoError, <<>>)
    /\ calls = <<>>

NextRegistration ==
    \/ \E n \in UsernameInputs, e \in EmailInputs, r \in RoleInputs : Register(n, e, r)
    \/ \E u \in DOMAIN users, n \in UsernameInputs, e \in EmailInputs, r \in RoleInputs :
          CreateUser(u, n, e, r)
    \/ \E n \in {"create_course", "manage_pricing"}, u \in DOMAIN users :
          CheckPrivilege(n, u)

SpecRegistration == InitRegistration /\ [][NextRegistration]_vars

ActiveNames(priv, i) ==
    {priv[k].privilege_name :
        k \in {j \in 1..Len(priv) : priv[j].instructor_id = i /\ priv[j].is_active}}

\* C12: when register or create_user adds a user whose role is instructor, the
\* names of that user's active privilege rows right after the call are exactly
\* the ten default names; and the privilege check made for an instructor who
\* holds exactly the defaults is true for create_course and false for
\* manage_pricing.
C12_DefaultPrivilegesAtCreation ==
    [][/\ (/\ last'.op \in {"register", "create_user"}
           /\ DOMAIN users' # DOMAIN users
           /\ users'[new_user_id(users)].role = "UserRole.INSTRUCTOR")
          => ActiveNames(privileges', new_user_id(users)) =
                Range(get_default_instructor_privileges)
       /\ (/\ last'.op = "check_privilege"
           /\ users[last'.args[2]].role = "UserRole.INSTRUCTOR"
           /\ ActiveNames(privileges, last'.args[2]) =
                 Range(get_default_instructor_privileges))
          => last'.returned = <<last'.args[1] = "create_course">>]_vars

(***************************************************************************)
(* services/course_service.py: fee and discount.  Dates are integers; the  *)
(* clock value datetime.utcnow() returns is an input of the call.          *)
(***************************************************************************)
\* latest clock value a fee is asked for
MaxTime == 4

FeeInputs == {0, 3, 1000}
DiscountInputs == {1, 800, 1000}
DateInputs == {1, 3}

\* round(num / den) to the nearest integer, a tie to the even one
round_half_even(num, den) ==
    LET n == IF den < 0 THEN 0 - num ELSE num
        d == IF den < 0 THEN 0 - den ELSE den
        q == n \div d
        r == n % d
    IN IF 2 * r < d THEN q
       ELSE IF 2 * r > d THEN q + 1
       ELSE IF q % 2 = 0 THEN q ELSE q + 1

\* the share of the fee that is left to pay, not the share taken off
_calculate_discount_percentage_remaining(original_fee, discounted_fee) ==
    IF original_fee = 0 THEN 0
    ELSE round_half_even(discounted_fee * 10000, original_fee)

\* round(((original_fee - discounted_fee) / original_fee) * 100, 2), written in
\* hundredths of a percent: 20.0 is 2000
_calculate_discount_percentage(original_fee, discounted_fee) ==
    IF original_fee = 0 THEN 0
    ELSE round_half_even((original_fee - discounted_fee) * 10000, original_fee)

\* the window test that leaves the end date out
discount_window_end_excluded(course, current_time) ==
    /\ course.discounted_fee # None
    /\ course.discount_start_date # None
    /\ course.discount_end_date # None
    /\ course.discount_start_date[1] <= current_time
    /\ current_time < course.discount_end_date[1]

\* "Check if discount is active"
discount_window(course, current_time) ==
    /\ course.discounted_fee # None
    /\ course.discount_start_date # None
    /\ course.discount_end_date # None
    /\ course.discount_start_date[1] <= current_time
    /\ current_time <= course.discount_end_date[1]

\* the dictionary get_current_fee returns for a course row
get_current_fee(course, current_time) ==
    IF discount_window(course, current_time)
    THEN [original_fee |-> course.fee,
          current_fee |-> course.discounted_fee[1],
          discounted_fee |-> course.discounted_fee,
          is_discounted |-> TRUE,
          discount_percentage |->
              _calculate_discount_percentage(course.fee, course.discounted_fee[1])]
    ELSE [original_fee |-> course.fee,
          current_fee |-> course.fee,
          discounted_fee |-> course.discounted_fee,
          is_discounted |-> FALSE,
          discount_percentage |-> 0]

\* the validation without the fee comparison
discount_checks_dates_only(course, discounted_fee, start_date, end_date) ==
    IF start_date >= end_date THEN "Start date must be before end date"
    ELSE NoError

\* the two validations of set_course_discount, in the order of the code
discount_checks(course, discounted_fee, start_date, end_date) ==
    IF discounted_fee >= course.fee
    THEN "Discounted fee must be less than original fee"
    ELSE IF start_date >= end_date THEN "Start date must be before end date"
    ELSE NoError

set_course_discount(crs, c, discounted_fee, start_date, end_date) ==
    IF ~get_course_by_id(crs, c) THEN [error |-> "Course not found", courses |-> crs]
    ELSE LET err == discount_checks(crs[c], discounted_fee, start_date, end_date)
         IN IF err # NoError THEN [error |-> err, courses |-> crs]
            ELSE [error |-> NoError,
                  courses |-> [crs EXCEPT ![c].discounted_fee = Some(discounted_fee),
                                          ![c].discount_start_date = Some(start_date),
                                          ![c].discount_end_date = Some(end_date)]]

remove_course_discount(crs, c) ==
    IF ~get_course_by_id(crs, c) THEN [error |-> "Course not found", courses |-> crs]
    ELSE [error |-> NoError,
          courses |-> [crs EXCEPT ![c].discounted_fee = None,
                                  ![c].discount_start_date = None,
                                  ![c].discount_end_date = None]]

GetCurrentFee(c, current_time) ==
    /\ IF get_course_by_id(courses, c)
       THEN last' = Call("get_current_fee", <<c, current_time>>, NoError,
                         <<get_current_fee(courses[c], current_time)>>)
       ELSE last' = Call("get_current_fee", <<c, current_time>>, "Course not found", <<>>)
    /\ UNCHANGED <<calls, users, courses, enrollments, privileges, tally>>

SetCourseDiscount(c, discounted_fee, start_date, end_date) ==
    /\ LET r == set_course_discount(courses, c, discounted_fee, start_date, end_date)
       IN /\ courses' = r.courses
          /\ last' = Call("set_course_discount",
                          <<c, discounted_fee, start_date, end_date>>, r.error, <<>>)
    /\ UNCHANGED <<calls, users, enrollments, privileges, tally>>

RemoveCourseDiscount(c) ==
    /\ LET r == remove_course_discount(courses, c)
       IN /\ courses' = r.courses
          /\ last' = Call("remove_course_discount", <<c>>, r.error, <<>>)
    /\ UNCHANGED <<calls, users, enrollments, privileges, tally>>

(***************************************************************************)
(* routers/course/courses.py: the routes that create and update a course   *)
(* and the instructor-facing status routes.  current_user is the row       *)
(* get_current_user returns; its role is compared with UserRole members.   *)
(***************************************************************************)
\* CourseStatus(v): the member whose value is v, or a ValueError
CourseStatusOf(v) ==
    IF \E m \in CourseStatus : value(m) = v
    THEN CHOOSE m \in CourseStatus : value(m) = v
    ELSE "ValueError"

\* a row whose status is taken to be published when none is given
Course_published(instructor_id, fee) ==
    [status |-> "CourseStatus.PUBLISHED", is_active |-> TRUE,
     instructor_id |-> instructor_id, fee |-> fee, discounted_fee |-> None,
     discount_start_date |-> None, discount_end_date |-> None, total_enrolled |-> 0]

\* Course(**course_data) with the keys of CourseCreateRequest (no status, no
\* discount): the other columns take their defaults
Course(instructor_id, fee) ==
    [status |-> "CourseStatus.DRAFT", is_active |-> TRUE,
     instructor_id |-> instructor_id, fee |-> fee, discounted_fee |-> None,
     discount_start_date |-> None, discount_end_date |-> None, total_enrolled |-> 0]

\* CourseService.create_course with the id the route generated
create_course(crs, id, instructor_id, fee) ==
    [c \in DOMAIN crs \cup {id} |->
        IF c = id THEN Course(instructor_id, fee) ELSE crs[c]]

\* the role test at the head of the create route
create_permission(priv, u) ==
    IF users[u].role = "UserRole.INSTRUCTOR"
    THEN IF check_privilege(priv, "create_course", u) THEN NoError
         ELSE "403 Instructor does not have permission to create courses"
    ELSE IF users[u].role # "UserRole.ADMIN"
    THEN "403 Only instructors and admins can create courses"
    ELSE NoError

\* uuid.uuid4(): an id no course holds
CreateCourse(u, fee) ==
    /\ \E id \in CourseIds \ DOMAIN courses :
          IF create_permission(privileges, u) # NoError
          THEN /\ last' = Call("create_course", <<u, fee>>,
                               create_permission(privileges, u), <<>>)
               /\ UNCHANGED courses
          ELSE /\ courses' = create_course(courses, id, u, fee)
               /\ last' = Call("create_course", <<u, fee>>, NoError, <<id>>)
    /\ UNCHANGED <<calls, users, enrollments, privileges, tally>>

\* the block "Check permissions" of the publish, archive and submit-review
\* routes: the course is looked up, an instructor must own it, any other role
\* but admin is refused
route_permission(crs, u, c) ==
    IF ~get_course_by_id(crs, c) THEN "404 Course not found"
    ELSE IF users[u].role = "UserRole.INSTRUCTOR"
    THEN IF crs[c].instructor_id # u THEN "403 You can only change your own courses"
         ELSE NoError
    ELSE IF users[u].role # "UserRole.ADMIN"
    THEN "403 Only instructors and admins can change courses"
    ELSE NoError

\* the same block of the update route, which also asks for edit_course
update_permission(crs, priv, u, c) ==
    IF route_permission(crs, u, c) # NoError THEN route_permission(crs, u, c)
    ELSE IF /\ users[u].role = "UserRole.INSTRUCTOR"
            /\ ~check_privilege(priv, "edit_course", u)
    THEN "403 Instructor does not have permission to edit courses"
    ELSE NoError

\* CourseService.update_course: no is_active filter; setattr for every key of
\* course_data (the keys modelled are fee and status)
update_course(crs, c, course_data) ==
    IF c \notin DOMAIN crs THEN [error |-> "Course not found", courses |-> crs]
    ELSE LET with_fee == IF "fee" \in DOMAIN course_data
                         THEN [crs[c] EXCEPT !.fee = course_data.fee]
                         ELSE crs[c]
             with_status == IF "status" \in DOMAIN course_data
                            THEN [with_fee EXCEPT !.status = course_data.status]
                            ELSE with_fee
         IN [error |-> NoError, courses |-> [crs EXCEPT ![c] = with_status]]

\* {k: v for k, v in course_data.dict().items() if v is not None}, the status
\* string converted by CourseStatus(...)
update_data(req) ==
    [k \in {f \in {"fee", "status"} : req[f] # None} |->
        IF k = "status" THEN CourseStatusOf(req.status[1]) ELSE req.fee[1]]

UpdateCourse(u, c, req) ==
    /\ LET perm == update_permission(courses, privileges, u, c)
           data == update_data(req)
           r == update_course(courses, c, data)
       IN IF perm # NoError
          THEN /\ last' = Call("update_course", <<u, c, req>>, perm, <<>>)
               /\ UNCHANGED courses
          ELSE IF "status" \in DOMAIN data /\ data.status = "ValueError"
          THEN /\ last' = Call("update_course", <<u, c, req>>, "400 Invalid status", <<>>)
               /\ UNCHANGED courses
          ELSE /\ courses' = r.courses
               /\ last' = Call("update_course", <<u, c, req>>, r.error, <<>>)
    /\ UNCHANGED <<calls, users, enrollments, privileges, tally>>

\* a status route: the permission block, then the service method
route_set_status(u, c, op, status) ==
    /\ LET perm == route_permission(courses, u, c)
       IN IF perm # NoError
          THEN /\ last' = Call(op, <<u, c>>, perm, <<>>)
               /\ UNCHANGED courses
          ELSE /\ courses' = [courses EXCEPT ![c].status = status]
               /\ last' = Call(op, <<u, c>>, NoError, <<status>>)
    /\ UNCHANGED <<calls, users, enrollments, privileges, tally>>

PublishCourseRoute(u, c) ==
    route_set_status(u, c, "POST publish", "CourseStatus.PUBLISHED")
ArchiveCourseRoute(u, c) ==
    route_set_status(u, c, "POST archive", "CourseStatus.ARCHIVED")
SubmitCourseForReviewRoute(u, c) ==
    route_set_status(u, c, "POST submit-review", "CourseStatus.IN_REVIEW")

(***************************************************************************)
(* The course calls: one specification for fee and discount, one for the   *)
(* status.  Both start from the seeded users and courses.                  *)
(***************************************************************************)
Optional(S) == {None} \cup {Some(v) : v \in S}

NextCourseFee ==
    \/ \E u \in {1, 2, 3}, fee \in {0, 1000} : CreateCourse(u, fee)
    \/ \E u \in {1, 2}, c \in CourseIds, fee \in Optional(FeeInputs) :
          UpdateCourse(u, c, [fee |-> fee, status |-> None])
    \/ \E c \in CourseIds, d \in DiscountInputs, s \in DateInputs, e \in DateInputs :
          SetCourseDiscount(c, d, s, e)
    \/ \E c \in CourseIds : RemoveCourseDiscount(c)
    \/ \E c \in CourseIds, now \in 0..MaxTime : GetCurrentFee(c, now)

SpecCourseFee == InitPrivilege /\ [][NextCourseFee]_vars

NextCourseStatus ==
    \/ \E u \in {1, 2, 3} : CreateCourse(u, 1000)
    \/ \E u \in {1, 2}, c \in CourseIds, s \in Optional({"published", "Draft"}) :
          UpdateCourse(u, c, [fee |-> None, status |-> s])
    \/ \E c \in CourseIds : PublishCourse(c)
    \/ \E c \in CourseIds : ArchiveCourse(c)
    \/ \E c \in CourseIds : SuspendCourse(c)
    \/ \E c \in CourseIds : SubmitForReview(c)
    \/ \E c \in CourseIds : ApproveCourse(c)
    \/ \E c \in CourseIds : RejectCourse(c)
    \/ \E u \in {1, 2, 3}, c \in CourseIds : PublishCourseRoute(u, c)
    \/ \E u \in {1, 2, 3}, c \in CourseIds : ArchiveCourseRoute(u, c)
    \/ \E u \in {1, 2, 3}, c \in CourseIds : SubmitCourseForReviewRoute(u, c)
    \/ AssignPrivilege(2, "publish_course", 1)

SpecCourseStatus == InitPrivilege /\ [][NextCourseStatus]_vars

(***************************************************************************)
(* Properties of the fee and the discount                                  *)
(***************************************************************************)
DiscountSet(course) ==
    /\ course.discounted_fee # None
    /\ course.discount_start_date # None
    /\ course.discount_end_date # None

InsideWindow(course, now) ==
    /\ DiscountSet(course)
    /\ course.discount_start_date[1] <= now
    /\ now <= course.discount_end_date[1]

ActiveCourse(c) == c \in DOMAIN courses /\ courses[c].is_active

\* C13: get_current_fee on an active course succeeds; it returns the discounted
\* fee with is_discounted true when a discount is set and start <= now <= end
\* (both ends included), and the fee with is_discounted false otherwise.
C13_CurrentFeeByWindow ==
    (last.op = "get_current_fee" /\ ActiveCourse(last.args[1])) =>
        LET course == courses[last.args[1]]
            now == last.args[2]
        IN /\ last.error = NoError
           /\ IF InsideWindow(course, now)
              THEN /\ last.returned[1].current_fee = course.discounted_fee[1]
                   /\ last.returned[1].is_discounted = TRUE
              ELSE /\ last.returned[1].current_fee = course.fee
                   /\ last.returned[1].is_discounted = FALSE

\* the fee was asked for at the very end date of a discount, and the discounted
\* fee was returned
C13_Witness ==
    /\ last.op = "get_current_fee"
    /\ last.error = NoError
    /\ DiscountSet(courses[last.args[1]])
    /\ last.args[2] = courses[last.args[1]].discount_end_date[1]
    /\ last.returned[1].is_discounted
    /\ last.returned[1].current_fee = 800

FeeError == "Discounted fee must be less than original fee"
DateError == "Start date must be before end date"

\* C14: set_course_discount on an active course raises a validation error and
\* leaves the course table as it was when discounted_fee >= fee or
\* start >= end; every call it accepts stores the three discount fields with
\* discounted_fee < fee and start < end and changes nothing else.
C14_SetDiscountValidation ==
    [][(last'.op = "set_course_discount" /\ ActiveCourse(last'.args[1])) =>
        LET c == last'.args[1]
            d == last'.args[2]
            s == last'.args[3]
            e == last'.args[4]
        IN IF d >= courses[c].fee \/ s >= e
           THEN /\ last'.error \in {FeeError, DateError}
                /\ courses' = courses
           ELSE /\ last'.error = NoError
                /\ courses' = [courses EXCEPT ![c].discounted_fee = <<d>>,
                                              ![c].discount_start_date = <<s>>,
                                              ![c].discount_end_date = <<e>>]
                /\ courses'[c].discounted_fee[1] < courses'[c].fee
                /\ courses'[c].discount_start_date[1] < courses'[c].discount_end_date[1]]_vars

\* a discount equal to the fee was refused on a course that already held an
\* accepted discount, which is still in place
C14_Witness ==
    /\ last.op = "set_course_discount"
    /\ ActiveCourse(last.args[1])
    /\ last.args[2] = courses[last.args[1]].fee
    /\ last.args[3] < last.args[4]
    /\ last.error = FeeError
    /\ DiscountSet(courses[last.args[1]])

\* C15: every course has its three discount fields all unset or all set, and
\* when set, discounted_fee < fee and discount_start_date < discount_end_date.
C15_DiscountFieldsConsistent ==
    \A c \in DOMAIN courses :
        \/ /\ courses[c].discounted_fee = None
           /\ courses[c].discount_start_date = None
           /\ courses[c].discount_end_date = None
        \/ /\ DiscountSet(courses[c])
           /\ courses[c].discounted_fee[1] < courses[c].fee
           /\ courses[c].discount_start_date[1] < courses[c].discount_end_date[1]

\* C16: get_current_fee reports 20 percent (2000 hundredths) for fee 1000 and
\* discounted fee 800 inside the window; inside a window with a fee other than
\* 0 it reports (fee - discounted_fee) * 100 / fee rounded to two decimals; with
\* fee 0, or outside every window, it reports 0.
C16_DiscountPercentage ==
    (last.op = "get_current_fee" /\ last.error = NoError) =>
        LET course == courses[last.args[1]]
            inside == InsideWindow(course, last.args[2])
            pct == last.returned[1].discount_percentage
            exact == (course.fee - course.discounted_fee[1]) * 10000
            miss == pct * course.fee - exact
            abs(x) == IF x < 0 THEN 0 - x ELSE x
        IN /\ (inside /\ course.fee = 1000 /\ course.discounted_fee = <<800>>)
                => pct = 2000
           /\ (inside /\ course.fee # 0) => 2 * abs(miss) <= abs(course.fee)
           /\ (~inside \/ course.fee = 0) => pct = 0

\* the fee of a course was asked for inside its discount window after the fee
\* had been set to 0, and the percentage reported is 0
C16_Witness ==
    /\ last.op = "get_current_fee"
    /\ last.error = NoError
    /\ InsideWindow(courses[last.args[1]], last.args[2])
    /\ courses[last.args[1]].fee = 0
    /\ last.returned[1].is_discounted
    /\ last.returned[1].discount_percentage = 0

TargetStatus ==
    [publish_course |-> "CourseStatus.PUBLISHED",
     archive_course |-> "CourseStatus.ARCHIVED",
     suspend_course |-> "CourseStatus.SUSPENDED",
     submit_for_review |-> "CourseStatus.IN_REVIEW",
     approve_course |-> "CourseStatus.APPROVED",
     reject_course |-> "CourseStatus.REJECTED"]

\* C18: each of the six transition methods, called for an existing active
\* course, succeeds whatever the status of the course is and leaves the course
\* in the target status of the method, nothing else changed.
C18_TransitionsUnconditional ==
    [][(last'.op \in DOMAIN TargetStatus /\ ActiveCourse(last'.args[1])) =>
        /\ last'.error = NoError
        /\ courses' = [courses EXCEPT ![last'.args[1]].status = TargetStatus[last'.op]]]_vars

\* a course created as a draft has just been approved without a review
C18_Witness ==
    /\ last.op = "approve_course"
    /\ last.error = NoError
    /\ last.args[1] = "c9"
    /\ courses["c9"].status = "CourseStatus.APPROVED"
    /\ value(courses["c9"].status) = "approved"

\* C19: the status of an archived course never changes again, and the status of
\* a rejected course changes only by a submission for review.
C19_ArchivedRejectedTerminal ==
    [][\A c \in DOMAIN courses :
          /\ courses[c].status = "CourseStatus.ARCHIVED"
                => courses'[c].status = "CourseStatus.ARCHIVED"
          /\ (/\ courses[c].status = "CourseStatus.REJECTED"
              /\ courses'[c].status # "CourseStatus.REJECTED")
                => last'.op \in {"submit_for_review", "POST submit-review"}]_vars

RoutePrivilege ==
    [c \in {"POST publish", "POST archive"} |->
        IF c = "POST publish" THEN "publish_course" ELSE "archive_course"]

\* C20: a publish, archive or submit-review request of an instructor takes
\* effect only if the instructor owns the course and, for publish and archive,
\* holds an active publish_course / archive_course privilege row.
C20_InstructorNeedsOwnershipAndPrivilege ==
    [][(/\ last'.op \in {"POST publish", "POST archive", "POST submit-review"}
        /\ users[last'.args[1]].role = "UserRole.INSTRUCTOR"
        /\ last'.error = NoError) =>
        LET u == last'.args[1]
            c == last'.args[2]
        IN /\ courses[c].instructor_id = u
           /\ last'.op \in DOMAIN RoutePrivilege
                 => ActivePrivileges(privileges, u, RoutePrivilege[last'.op]) # {}]_vars

(***************************************************************************)
(* services/course_service.py with the clock.  Every mutating method ends  *)
(* with course.updated_at = datetime.utcnow(); the value the clock returns *)
(* is an input of the call (now).  The course rows of this specification    *)
(* carry the updated_at column.                                             *)
(***************************************************************************)
ClockInputs == {1, 2}

\* the updated_at column, filled by the server default when the row was made
with_updated_at(crs) ==
    [c \in DOMAIN crs |->
        [f \in DOMAIN crs[c] \cup {"updated_at"} |->
            IF f = "updated_at" THEN 0 ELSE crs[c][f]]]

\* course.updated_at = datetime.utcnow(), reached when nothing was raised
stamp_updated_at(r, c, now) ==
    IF r.error = NoError
    THEN [r EXCEPT !.courses = [r.courses EXCEPT ![c].updated_at = now]]
    ELSE r

\* publish_course .. reject_course as a function of the table
set_course_status(crs, c, status) ==
    IF ~get_course_by_id(crs, c) THEN [error |-> "Course not found", courses |-> crs]
    ELSE [error |-> NoError, courses |-> [crs EXCEPT ![c].status = status]]

ServiceCall(op, args, r) ==
    /\ courses' = r.courses
    /\ last' = Call(op, args, r.error, <<>>)
    /\ UNCHANGED <<calls, users, enrollments, privileges, tally>>

UpdateCourseAt(c, course_data, now) ==
    ServiceCall("update_course", <<c, course_data, now>>,
                stamp_updated_at(update_course(courses, c, course_data), c, now))

SetCourseDiscountAt(c, discounted_fee, start_date, end_date, now) ==
    ServiceCall("set_course_discount", <<c, discounted_fee, start_date, end_date, now>>,
                stamp_updated_at(set_course_discount(courses, c, discounted_fee,
                                                     start_date, end_date), c, now))

RemoveCourseDiscountAt(c, now) ==
    ServiceCall("remove_course_discount", <<c, now>>,
                stamp_updated_at(remove_course_discount(courses, c), c, now))

StatusMethods ==
    [publish_course |-> "CourseStatus.PUBLISHED", archive_course |-> "CourseStatus.ARCHIVED",
     suspend_course |-> "CourseStatus.SUSPENDED", submit_for_review |-> "CourseStatus.IN_REVIEW",
     approve_course |-> "CourseStatus.APPROVED", reject_course |-> "CourseStatus.REJECTED"]

SetCourseStatusAt(op, c, now) ==
    ServiceCall(op, <<c, now>>,
                stamp_updated_at(set_course_status(courses, c, StatusMethods[op]), c, now))

InitCourseService ==
    /\ users = SeedUsers
    /\ enrollments = <<>>
    /\ courses = with_updated_at(SeedCourses(enrollments))
    /\ privileges = <<>>
    /\ tally = <<>>
    /\ last = Call("init", <<>>, NoError, <<>>)
    /\ calls = <<>>

NextCourseService ==
    \/ \E c \in CourseIds, fee \in {0, 1000}, now \in ClockInputs :
          UpdateCourseAt(c, [fee |-> fee], now)
    \/ \E c \in CourseIds, d \in {800, 1000}, now \in ClockInputs :
          SetCourseDiscountAt(c, d, 1, 3, now)
    \/ \E c \in CourseIds, now \in ClockInputs : RemoveCourseDiscountAt(c, now)
    \/ \E op \in DOMAIN StatusMethods, c \in CourseIds, now \in ClockInputs :
          SetCourseStatusAt(op, c, now)

SpecCourseService == InitCourseService /\ [][NextCourseService]_vars

MutatingCourseMethods ==
    {"update_course", "set_course_discount", "remove_course_discount"}
        \cup DOMAIN StatusMethods

\* C21: a mutating call of the course service on a course id that is absent or
\* whose course is inactive ends with "Course not found" and leaves the courses
\* table as it was; a call that succeeds leaves updated_at of its course equal
\* to the clock value of the call.
C21_NotFoundOrStamped ==
    [][last'.op \in MutatingCourseMethods =>
        LET c == last'.args[1]
            now == last'.args[Len(last'.args)]
        IN /\ (c \notin DOMAIN courses \/ ~courses[c].is_active) =>
                 (last'.error = "Course not found" /\ courses' = courses)
           /\ last'.error = NoError => courses'[c].updated_at = now]_vars

\* no two user rows share a username or an email
UniqueUsernameAndEmail ==
    \A u, v \in DOMAIN users :
        u # v => users[u].username # users[v].username /\ users[u].email # users[v].email

\* C22: a register or create_user call whose username or email equals that of
\* a user in the table, and that is not turned down for its format, its role
\* string or its caller, ends with a conflict error and adds no user; and no
\* two users share a username or an email.
C22_DuplicateRegistrationRefused ==
    /\ [][(/\ last'.op \in {"register", "create_user"}
           /\ last'.error \notin {"ValidationException", "InvalidUserTypeException",
                                  "AuthenticationException"}
           /\ LET n == Len(last'.args)
              IN \E u \in DOMAIN users :
                    \/ users[u].username = last'.args[n - 2]
                    \/ users[u].email = last'.args[n - 1])
          => /\ last'.error \in {"User already exists with username",
                                 "User already exists with email",
                                 "400 Username or email already registered"}
             /\ users' = users]_vars
    /\ []UniqueUsernameAndEmail

(***************************************************************************)
(* services/enrollment_service.py, request by request.  Every request has  *)
(* its own session (config/connection.py: get_db), and every query and     *)
(* every commit of a method is one step; steps of different requests       *)
(* interleave.  calls[p] is request p: the method, its arguments, the      *)
(* statement it is at (pc), the row and the count its queries returned,    *)
(* what it raised, and how many requests had started when it ended         *)
(* (ended_at, 0 while it runs).                                            *)
(***************************************************************************)
\* requests started in one run
MaxCalls == 2

NewCall(op, args, pc) ==
    [op |-> op, args |-> args, pc |-> pc, row |-> 0, enrollment_count |-> 0,
     error |-> NoError, ended_at |-> 0]

At(p, op, pc) == calls[p].op = op /\ calls[p].pc = pc

Begin(op, args, pc) ==
    /\ Len(calls) < MaxCalls
    /\ calls' = Append(calls, NewCall(op, args, pc))
    /\ UNCHANGED <<users, courses, enrollments, privileges, tally, last>>

\* raise ValueError(error)
Raise(p, error) ==
    /\ calls' = [calls EXCEPT ![p].pc = "raised", ![p].error = error,
                              ![p].ended_at = Len(calls)]
    /\ last' = Call(calls[p].op, calls[p].args, error, <<>>)

\* return
Return(p, returned) ==
    /\ calls' = [calls EXCEPT ![p].pc = "returned", ![p].ended_at = Len(calls)]
    /\ last' = Call(calls[p].op, calls[p].args, NoError, returned)

Goto(p, pc) ==
    /\ calls' = [calls EXCEPT ![p].pc = pc]
    /\ UNCHANGED last

\* the status test with the value of the member
status_is_enrollable_by_value(status) == value(status) \in get_enrollable_statuses

\* course.status not in enrollable_statuses: a member looked for in a list of
\* strings
status_is_enrollable(status) == status \in get_enrollable_statuses

BeginEnroll(s, c) == Begin("enroll_student", <<s, c>>, "student")

\* the student query
EnrollQueryStudent(p) ==
    /\ IF student_query(calls[p].args[1])
       THEN Goto(p, "course")
       ELSE Raise(p, "Student not found or invalid")
    /\ UNCHANGED <<users, courses, enrollments, privileges, tally>>

\* the course query and the status test
EnrollQueryCourse(p) ==
    /\ LET c == calls[p].args[2]
       IN IF ~get_course_by_id(courses, c) THEN Raise(p, "Course not found")
          ELSE IF ~status_is_enrollable(courses[c].status)
          THEN Raise(p, "Cannot enroll in course with status")
          ELSE Goto(p, "existing")
    /\ UNCHANGED <<users, courses, enrollments, privileges, tally>>

\* the existing_enrollment query
EnrollQueryExisting(p) ==
    /\ IF is_student_enrolled(enrollments, calls[p].args[1], calls[p].args[2])
       THEN Raise(p, "Student is already enrolled in this course")
       ELSE Goto(p, "insert")
    /\ UNCHANGED <<users, courses, enrollments, privileges, tally>>

\* db.add(enrollment); db.commit()
EnrollInsert(p) ==
    /\ enrollments' = Append(enrollments, Row(calls[p].args[1], calls[p].args[2], TRUE))
    /\ calls' = [calls EXCEPT ![p].pc = "count", ![p].row = Len(enrollments) + 1]
    /\ UNCHANGED <<users, courses, privileges, tally, last>>

\* the next statement of request p in enroll_student, up to the commit of the
\* new row
EnrollStep(p) ==
    /\ calls[p].op = "enroll_student"
    /\ calls[p].pc \in {"student", "course", "existing", "insert"}
    /\ CASE calls[p].pc = "student" -> EnrollQueryStudent(p)
         [] calls[p].pc = "course" -> EnrollQueryCourse(p)
         [] calls[p].pc = "existing" -> EnrollQueryExisting(p)
         [] calls[p].pc = "insert" -> EnrollInsert(p)

BeginUnenroll(s, c) == Begin("unenroll_student", <<s, c>>, "query")

\* the query of unenroll_student; .first() has no order_by
UnenrollQuery(p) ==
    /\ At(p, "unenroll_student", "query")
    /\ LET found == ActiveRows(enrollments, calls[p].args[1], calls[p].args[2])
       IN IF found = {} THEN Raise(p, "Enrollment not found")
          ELSE /\ \E i \in found : calls' = [calls EXCEPT ![p].pc = "commit", ![p].row = i]
               /\ UNCHANGED last
    /\ UNCHANGED <<users, courses, enrollments, privileges, tally>>

\* enrollment.is_active = False; db.commit()
UnenrollCommit(p) ==
    /\ At(p, "unenroll_student", "commit")
    /\ enrollments' = [enrollments EXCEPT ![calls[p].row].is_active = FALSE]
    /\ Goto(p, "count")
    /\ UNCHANGED <<users, courses, privileges, tally>>

\* _update_course_enrollment_count: enrollment_count = get_enrollment_count(..)
CountEnrollments(p) ==
    /\ calls[p].pc = "count"
    /\ calls' = [calls EXCEPT ![p].pc = "write",
                    ![p].enrollment_count = get_enrollment_count(enrollments, calls[p].args[2])]
    /\ UNCHANGED <<users, courses, enrollments, privileges, tally, last>>

\* _update_course_enrollment_count: the course query, course.total_enrolled =
\* enrollment_count, db.commit(); then the method returns
WriteTotalEnrolled(p) ==
    /\ calls[p].pc = "write"
    /\ LET c == calls[p].args[2]
       IN courses' = IF c \in DOMAIN courses
                     THEN [courses EXCEPT ![c].total_enrolled = calls[p].enrollment_count]
                     ELSE courses
    /\ Return(p, <<calls[p].row>>)
    /\ UNCHANGED <<users, enrollments, privileges, tally>>

NextEnrollmentSteps ==
    \/ \E s \in {3, 4}, c \in {"c1"} : BeginEnroll(s, c)
    \/ \E s \in {3, 4}, c \in {"c1"} : BeginUnenroll(s, c)
    \/ \E p \in DOMAIN calls : EnrollStep(p)
    \/ \E p \in DOMAIN calls : UnenrollQuery(p)
    \/ \E p \in DOMAIN calls : UnenrollCommit(p)
    \/ \E p \in DOMAIN calls : CountEnrollments(p)
    \/ \E p \in DOMAIN calls : WriteTotalEnrolled(p)
    \/ PublishCourse("c1")

SpecEnrollmentSteps == Init /\ [][NextEnrollmentSteps]_vars

\* every request has ended and total_enrolled of a course is not the number of
\* its active enrollments
LostUpdate ==
    /\ \A p \in DOMAIN calls : calls[p].ended_at > 0
    /\ \E c \in DOMAIN courses :
          courses[c].total_enrolled # get_enrollment_count(enrollments, c)

\* C23: a concurrent enroll call that finds its course active and with a status
\* whose value is enrollable goes on to the existence check, the insert-commit
\* and the count-then-write of total_enrolled, the steps whose interleaving
\* with another enroll or unenroll call loses an update.
C23_EnrollReachesInsertAndCount ==
    [][\A p \in DOMAIN calls :
          (/\ At(p, "enroll_student", "course")
           /\ calls'[p].pc # "course"
           /\ get_course_by_id(courses, calls[p].args[2])
           /\ value(courses[calls[p].args[2]].status) \in get_enrollable_statuses)
          => calls'[p].pc = "existing"]_vars

\* request q, an enroll call for the pair of request p, started before p ended
EarlierEnroll(q, p) ==
    /\ calls[q].op = "enroll_student"
    /\ calls[q].args = calls[p].args
    /\ q <= calls[p].ended_at

BeginAssign(i, name, admin) ==
    Begin("assign_privilege_to_instructor", <<i, name, admin>>, "instructor")

\* PrivilegeName(privilege_name), then the instructor query
AssignQueryInstructor(p) ==
    /\ At(p, "assign_privilege_to_instructor", "instructor")
    /\ IF calls[p].args[2] \notin PrivilegeName THEN Raise(p, InvalidName)
       ELSE IF ~instructor_query(users, calls[p].args[1]) THEN Raise(p, InstructorNotFound)
       ELSE Goto(p, "admin")
    /\ UNCHANGED <<users, courses, enrollments, privileges, tally>>

AssignQueryAdmin(p) ==
    /\ At(p, "assign_privilege_to_instructor", "admin")
    /\ IF ~admin_query(users, calls[p].args[3]) THEN Raise(p, AdminNotFound)
       ELSE Goto(p, "existing")
    /\ UNCHANGED <<users, courses, enrollments, privileges, tally>>

AssignQueryExisting(p) ==
    /\ At(p, "assign_privilege_to_instructor", "existing")
    /\ IF existing_privilege(privileges, calls[p].args[1], calls[p].args[2])
       THEN Raise(p, AlreadyAssigned)
       ELSE Goto(p, "insert")
    /\ UNCHANGED <<users, courses, enrollments, privileges, tally>>

\* an insert that looks for an active row of the pair once more and raises
AssignInsert_unless_existing(p) ==
    /\ At(p, "assign_privilege_to_instructor", "insert")
    /\ IF existing_privilege(privileges, calls[p].args[1], calls[p].args[2])
       THEN /\ Raise(p, AlreadyAssigned)
            /\ UNCHANGED privileges
       ELSE /\ privileges' = Append(privileges, Privilege(calls[p].args[1],
                                        calls[p].args[2], calls[p].args[3]))
            /\ Return(p, <<Len(privileges) + 1>>)
    /\ UNCHANGED <<users, courses, enrollments, tally>>

\* db.add(privilege); db.commit(); return privilege
AssignInsert(p) ==
    /\ At(p, "assign_privilege_to_instructor", "insert")
    /\ privileges' = Append(privileges, Privilege(calls[p].args[1], calls[p].args[2],
                                                  calls[p].args[3]))
    /\ Return(p, <<Len(privileges) + 1>>)
    /\ UNCHANGED <<users, courses, enrollments, tally>>

NextPrivilegeSteps ==
    \/ \E i \in InstructorInputs, n \in {"create_course", "fly"}, a \in AdminInputs :
          BeginAssign(i, n, a)
    \/ \E p \in DOMAIN calls : AssignQueryInstructor(p)
    \/ \E p \in DOMAIN calls : AssignQueryAdmin(p)
    \/ \E p \in DOMAIN calls : AssignQueryExisting(p)
    \/ \E p \in DOMAIN calls : AssignInsert(p)
    \/ RevokePrivilege(2, "create_course", 1)

SpecPrivilegeSteps == InitPrivilege /\ [][NextPrivilegeSteps]_vars

\* C24: an assign request passes its existence check exactly when the pair has
\* no active row at that step, and its insert, a later step, adds an active row
\* whatever was inserted in between; so two requests for one pair that both
\* pass the check before either inserts leave two active rows for the pair.
C24_CheckThenInsertNotAtomic ==
    [][\A p \in DOMAIN calls :
          LET i == calls[p].args[1]
              name == calls[p].args[2]
          IN /\ (At(p, "assign_privilege_to_instructor", "existing")
                    /\ calls'[p].pc # "existing")
                => (calls'[p].pc = "insert" <=> ~existing_privilege(privileges, i, name))
             /\ (At(p, "assign_privilege_to_instructor", "insert")
                    /\ calls'[p].pc # "insert")
                => /\ calls'[p].pc = "returned"
                   /\ privileges' = Append(privileges, Privilege(i, name, calls[p].args[3]))]_vars

\* two assign requests for the same pair have both returned and the pair has
\* two active rows
C24_Witness ==
    \E p, q \in DOMAIN calls :
        /\ p # q
        /\ At(p, "assign_privilege_to_instructor", "returned")
        /\ At(q, "assign_privilege_to_instructor", "returned")
        /\ calls[p].args[1] = calls[q].args[1]
        /\ calls[p].args[2] = calls[q].args[2]
        /\ Cardinality(ActivePrivileges(privileges, calls[p].args[1], calls[p].args[2])) = 2

\* C25: a bulk assign or bulk revoke call raises nothing; every name of its
\* list that can be assigned (revoked) on its own in the state of the call is
\* assigned (revoked) by it and is among the names it returns for a revocation,
\* whatever the other names of the list are.
C25_BulkContinuesPastFailures ==
    [][last'.op \in {"bulk_assign_privileges", "bulk_revoke_privileges"} =>
        LET i == last'.args[1]
            names == last'.args[2]
            admin == last'.args[3]
        IN /\ last'.error = NoError
           /\ \A k \in 1..Len(names) :
                 IF last'.op = "bulk_assign_privileges"
                 THEN assign_checks(users, privileges, i, names[k], admin) = NoError
                         => ActivePrivileges(privileges', i, names[k]) # {}
                 ELSE revoke_checks(users, privileges, i, names[k], admin) = NoError
                         => /\ ActivePrivileges(privileges', i, names[k]) = {}
                            /\ names[k] \in Range(last'.returned)]_vars

(***************************************************************************)
(* register on a database that holds an admin whose is_active is False.    *)
(* No route writes users.is_active; the column is there for rows that were *)
(* deactivated in the database.                                            *)
(***************************************************************************)
InitRegistrationInactiveAdmin ==
    /\ users = <<[username |-> <<"r", "o", "o", "t">>,
                  email |-> <<"r", "@", "x", ".", "i", "o">>,
                  role |-> "UserRole.ADMIN", is_active |-> FALSE]>>
    /\ courses = <<>>
    /\ enrollments = <<>>
    /\ privileges = <<>>
    /\ tally = <<>>
    /\ last = Call("init", <<>>, NoError, <<>>)
    /\ calls = <<>>

SpecRegistrationInactiveAdmin == InitRegistrationInactiveAdmin /\ [][NextRegistration]_vars

\* C26: a register call that ends in an error leaves the users table and the
\* privileges table as they were before the call.
C26_RegisterAllOrNothing ==
    [][(last'.op = "register" /\ last'.error # NoError)
          => (users' = users /\ privileges' = privileges)]_vars

(***************************************************************************)
(* The rows of enrollments and privileges over time: enroll, unenroll,     *)
(* assign, revoke and the history query in one specification.              *)
(***************************************************************************)
\* get_enrollment_history(student_id): no is_active filter.  The ids of the
\* rows returned; their order (enrolled_at descending) is left out.
get_enrollment_history(enr, student_id) ==
    {k \in Rows(enr) : enr[k].student_id = student_id}

GetEnrollmentHistory(s) ==
    /\ last' = Call("get_enrollment_history", <<s>>, NoError,
                    <<get_enrollment_history(enrollments, s)>>)
    /\ UNCHANGED <<calls, users, courses, enrollments, privileges, tally>>

NextHistory ==
    \/ \E s \in {3, 4}, c \in {"c1"} : EnrollStudent(s, c)
    \/ \E s \in {3, 4}, c \in {"c1"} : UnenrollStudent(s, c)
    \/ \E n \in {"create_course", "fly"}, a \in AdminInputs : AssignPrivilege(2, n, a)
    \/ \E n \in {"create_course", "fly"}, a \in AdminInputs : RevokePrivilege(2, n, a)
    \/ \E s \in {3, 4} : GetEnrollmentHistory(s)
    \/ PublishCourse("c1")

SpecHistory == Init /\ [][NextHistory]_vars

\* table after is table before with rows appended and, of the rows it had, at
\* most some is_active columns changed from true to false
GrownFrom(after, before) ==
    /\ Len(after) >= Len(before)
    /\ \A k \in 1..Len(before) :
          \/ after[k] = before[k]
          \/ (before[k].is_active /\ after[k] = [before[k] EXCEPT !.is_active = FALSE])

\* exactly one row of the table changed, and only its is_active, to false
OneRowDeactivated(after, before) ==
    /\ Len(after) = Len(before)
    /\ \E k \in 1..Len(before) :
          /\ before[k].is_active
          /\ after = [before EXCEPT ![k].is_active = FALSE]

\* no step removes a row or sets is_active back to true, a successful unenroll
\* or revoke deactivates one row, and the history query returns the inactive
\* rows too
RowsKeptAndNeverReactivated ==
    [][/\ GrownFrom(enrollments', enrollments)
       /\ GrownFrom(privileges', privileges)
       /\ (last'.op = "unenroll_student" /\ last'.error = NoError)
             => OneRowDeactivated(enrollments', enrollments)
       /\ (last'.op = "revoke_privilege_from_instructor" /\ last'.error = NoError)
             => OneRowDeactivated(privileges', privileges)
       /\ last'.op = "get_enrollment_history"
             => \A k \in 1..Len(enrollments) :
                   enrollments[k].student_id = last'.args[1] => k \in last'.returned[1]]_vars

\* C27: unenroll and revoke remove no row and set is_active of one row from
\* true to false; no operation sets is_active back to true; assigning a revoked
\* privilege again and enrolling an unenrolled student again add a new active
\* row; and the history query returns the inactive rows.
C27_RowsOnlyGrow ==
    /\ RowsKeptAndNeverReactivated
    /\ [][/\ (/\ last'.op = "enroll_student"
              /\ ValidStudent(last'.args[1])
              /\ EnrollableByValue(last'.args[2])
              /\ ActivePairRows(enrollments, last'.args[1], last'.args[2]) = {}
              /\ Row(last'.args[1], last'.args[2], FALSE) \in Range(enrollments))
             => enrollments' = Append(enrollments, Row(last'.args[1], last'.args[2], TRUE))
          /\ (/\ last'.op = "assign_privilege_to_instructor"
              /\ assign_checks(users, privileges, last'.args[1], last'.args[2],
                               last'.args[3]) = NoError
              /\ existing_privilege_any_row(privileges, last'.args[1], last'.args[2]))
             => privileges' = Append(privileges, Privilege(last'.args[1], last'.args[2],
                                                           last'.args[3]))]_vars

(***************************************************************************)
(* routers/course/courses.py: the requests that write a course's status,   *)
(* each made by a user (current_user).  approve and reject test the role   *)
(* and call the service method.                                            *)
(***************************************************************************)
admin_set_status(u, c, op, status) ==
    /\ IF users[u].role # "UserRole.ADMIN"
       THEN /\ last' = Call(op, <<u, c>>, "403 Only admins can approve or reject courses", <<>>)
            /\ UNCHANGED courses
       ELSE IF ~get_course_by_id(courses, c)
       THEN /\ last' = Call(op, <<u, c>>, "400 Course not found", <<>>)
            /\ UNCHANGED courses
       ELSE /\ courses' = [courses EXCEPT ![c].status = status]
            /\ last' = Call(op, <<u, c>>, NoError, <<status>>)
    /\ UNCHANGED <<calls, users, enrollments, privileges, tally>>

ApproveCourseRoute(u, c) == admin_set_status(u, c, "POST approve", "CourseStatus.APPROVED")
RejectCourseRoute(u, c) == admin_set_status(u, c, "POST reject", "CourseStatus.REJECTED")

NextCourseRoutes ==
    \/ \E u \in {1, 2, 3} : CreateCourse(u, 1000)
    \/ \E u \in {1, 2, 3}, c \in CourseIds, s \in {"approved", "rejected", "published"} :
          UpdateCourse(u, c, [fee |-> None, status |-> Some(s)])
    \/ \E u \in {1, 2, 3}, c \in CourseIds : PublishCourseRoute(u, c)
    \/ \E u \in {1, 2, 3}, c \in CourseIds : ArchiveCourseRoute(u, c)
    \/ \E u \in {1, 2, 3}, c \in CourseIds : SubmitCourseForReviewRoute(u, c)
    \/ \E u \in {1, 2, 3}, c \in CourseIds : ApproveCourseRoute(u, c)
    \/ \E u \in {1, 2, 3}, c \in CourseIds : RejectCourseRoute(u, c)
    \/ AssignPrivilege(2, "edit_course", 1)

SpecCourseRoutes == InitPrivilege /\ [][NextCourseRoutes]_vars

referenced(u) ==
    \/ \E c \in DOMAIN courses : courses[c].instructor_id = u
    \/ \E k \in Rows(enrollments) : enrollments[k].student_id = u
    \/ \E k \in 1..Len(privileges) :
          privileges[k].instructor_id = u \/ privileges[k].assigned_by = u

BeginDeleteUser(current_user, user_id) ==
    Begin("delete_user", <<current_user, user_id>>, "get_current_admin")

\* get_current_user finds the row of the token's user; get_current_admin tests
\* the role (is_active is not looked at)
DeleteUserAuthenticate(p) ==
    /\ At(p, "delete_user", "get_current_admin")
    /\ IF calls[p].args[1] \notin DOMAIN users THEN Raise(p, "UserNotFoundException")
       ELSE IF users[calls[p].args[1]].role # "UserRole.ADMIN"
       THEN Raise(p, "AuthenticationException")
       ELSE Goto(p, "query")
    /\ UNCHANGED <<users, courses, enrollments, privileges, tally>>

\* the query of the target and the test against current_admin.id
DeleteUserQuery(p) ==
    /\ At(p, "delete_user", "query")
    /\ IF calls[p].args[2] \notin DOMAIN users THEN Raise(p, "404 User not found")
       ELSE IF calls[p].args[2] = calls[p].args[1]
       THEN Raise(p, "400 Cannot delete your own account")
       ELSE Goto(p, "delete")
    /\ UNCHANGED <<users, courses, enrollments, privileges, tally>>

\* db.delete(user); db.commit(): the DELETE fails when the row is gone or is
\* still referenced
DeleteUserCommit(p) ==
    /\ At(p, "delete_user", "delete")
    /\ LET user_id == calls[p].args[2]
       IN IF user_id \notin DOMAIN users
          THEN /\ Raise(p, "500 StaleDataError")
               /\ UNCHANGED users
          ELSE IF referenced(user_id)
          THEN /\ Raise(p, "500 IntegrityError")
               /\ UNCHANGED users
          ELSE /\ users' = [u \in DOMAIN users \ {user_id} |-> users[u]]
               /\ Return(p, <<"User deleted successfully">>)
    /\ UNCHANGED <<courses, enrollments, privileges, tally>>

NextDeleteUserSteps ==
    \/ \E a \in {1, 2, 7}, t \in {1, 2, 5, 7, 8} : BeginDeleteUser(a, t)
    \/ \E p \in DOMAIN calls : DeleteUserAuthenticate(p)
    \/ \E p \in DOMAIN calls : DeleteUserQuery(p)
    \/ \E p \in DOMAIN calls : DeleteUserCommit(p)

SpecDeleteUserSteps == InitPrivilege /\ [][NextDeleteUserSteps]_vars

\* C30: the users table, which holds an admin when the requests start, holds an
\* admin after every step of every interleaving of admin delete-user requests.
C30_AnAdminRemains ==
    \E u \in DOMAIN users : users[u].role = "UserRole.ADMIN"
====
